---------------------------- MODULE Spec2Model ----------------------------
(***************************************************************************)
(* Model of melvinchai/my-receipt-app.                                     *)
(*                                                                         *)
(* Part I  : the rule-driven extractor (rule_loader.py, guided_parser.py,  *)
(*           driven by the parse trigger of user_module.py).               *)
(* Part II : the Claude receipt parser (claude_parser_app.py): script      *)
(*           runs of several sessions against one cloud bucket.            *)
(*                                                                         *)
(* Strings are tuples of one-character strings, so that split, strip,      *)
(* lower, substring search and regex search are computed, not assumed.     *)
(***************************************************************************)
EXTENDS Integers, Sequences, FiniteSets, TLC

(***************************************************************************)
(* Bounds of the model.                                                    *)
(***************************************************************************)
MaxTextLen == 3
MaxRules == 2

(***************************************************************************)
(* Characters and strings.                                                 *)
(***************************************************************************)
Char == {"a", "A", "1", " ", "\n"}

Whitespace == {" ", "\n"}

Digits == {"1"}

\* str.lower() on one character: the upper-case letters of the model map to
\* their lower-case letter, every other character is unchanged.
LowerChar(ch) ==
    CASE ch = "A" -> "a"
      [] ch = "C" -> "c"
      [] ch = "Z" -> "z"
      [] ch = "J" -> "j"
      [] OTHER -> ch

\* str.upper() on one character.
UpperChar(ch) ==
    CASE ch = "a" -> "A"
      [] ch = "c" -> "C"
      [] ch = "z" -> "Z"
      [] ch = "j" -> "J"
      [] OTHER -> ch

Lower(s) == [i \in 1..Len(s) |-> LowerChar(s[i])]

Upper(s) == [i \in 1..Len(s) |-> UpperChar(s[i])]

\* Python's `sub in s` on strings: sub occurs in s as a contiguous slice.
Contains(sub, s) ==
    \E i \in 0..(Len(s) - Len(sub)) :
        \A k \in 1..Len(sub) : s[i + k] = sub[k]

\* All strings over S of length at most n.
RECURSIVE StringsUpTo(_, _)
StringsUpTo(S, n) ==
    IF n = 0 THEN {<<>>}
    ELSE LET shorter == StringsUpTo(S, n - 1)
         IN  shorter \cup {Append(s, c) : s \in shorter, c \in S}

\* The index of the first "\n" of s, or 0.
RECURSIVE FirstNewline(_, _)
FirstNewline(s, i) ==
    IF i > Len(s) THEN 0
    ELSE IF s[i] = "\n" THEN i
    ELSE FirstNewline(s, i + 1)

\* str.split("\n"): the pieces between the newlines, empty pieces kept.
RECURSIVE Split(_)
Split(s) ==
    LET n == FirstNewline(s, 1)
    IN  IF n = 0 THEN <<s>>
        ELSE <<SubSeq(s, 1, n - 1)>> \o Split(SubSeq(s, n + 1, Len(s)))

RECURSIVE LStrip(_)
LStrip(s) ==
    IF s # <<>> /\ Head(s) \in Whitespace THEN LStrip(Tail(s)) ELSE s

RECURSIVE RStrip(_)
RStrip(s) ==
    IF s # <<>> /\ s[Len(s)] \in Whitespace
    THEN RStrip(SubSeq(s, 1, Len(s) - 1))
    ELSE s

\* str.strip(): leading and trailing whitespace removed.
Strip(s) == RStrip(LStrip(s))

\* A mutant of SplitLines: pieces are filtered but kept untrimmed.
SplitLinesUntrimmed(text) ==
    SelectSeq(Split(text), LAMBDA p : Strip(p) # <<>>)

\* [line.strip() for line in ocr_text.split("\n") if line.strip()]
SplitLines(text) ==
    LET pieces == Split(text)
        stripped == [i \in 1..Len(pieces) |-> Strip(pieces[i])]
    IN  SelectSeq(stripped, LAMBDA p : p # <<>>)

(***************************************************************************)
(* Regular expressions: a pattern is a sequence of atoms, each a character *)
(* class with a quantifier; re.search is leftmost, greedy, backtracking.   *)
(***************************************************************************)
\* \d+
PatDigits == << [c |-> "\\d", q |-> "+"] >>

\* A\d*
PatADigits == << [c |-> "A", q |-> "1"], [c |-> "\\d", q |-> "*"] >>

\* \d*
PatDigitsStar == << [c |-> "\\d", q |-> "*"] >>

Patterns == {PatDigits, PatADigits, PatDigitsStar}

ClassMatch(c, ch) == IF c = "\\d" THEN ch \in Digits ELSE ch = c

\* The number of consecutive characters of s from position i+1 on that are
\* in class c.
RECURSIVE RunLength(_, _, _)
RunLength(c, s, i) ==
    IF i < Len(s) /\ ClassMatch(c, s[i + 1])
    THEN 1 + RunLength(c, s, i + 1)
    ELSE 0

\* Match pattern pat against s starting after offset i: the end offset of
\* the match the backtracking matcher finds first, or -1.
RECURSIVE MatchHere(_, _, _)
RECURSIVE MatchRepeat(_, _, _, _, _)
MatchRepeat(pat, s, i, k, least) ==
    IF k < least THEN -1
    ELSE LET e == MatchHere(Tail(pat), s, i + k)
         IN  IF e # -1 THEN e ELSE MatchRepeat(pat, s, i, k - 1, least)

MatchHere(pat, s, i) ==
    IF pat = <<>> THEN i
    ELSE LET atom == Head(pat)
         IN  CASE atom.q = "1" ->
                    IF i < Len(s) /\ ClassMatch(atom.c, s[i + 1])
                    THEN MatchHere(Tail(pat), s, i + 1)
                    ELSE -1
               [] atom.q = "+" ->
                    MatchRepeat(pat, s, i, RunLength(atom.c, s, i), 1)
               [] atom.q = "*" ->
                    MatchRepeat(pat, s, i, RunLength(atom.c, s, i), 0)

\* re.search(pattern, line): the match at the leftmost start offset, as
\* [found, text]; text is match.group().
RECURSIVE SearchFrom(_, _, _)
SearchFrom(pat, s, i) ==
    IF i > Len(s) THEN [found |-> FALSE, text |-> <<>>]
    ELSE LET e == MatchHere(pat, s, i)
         IN  IF e # -1
             THEN [found |-> TRUE, text |-> SubSeq(s, i + 1, e)]
             ELSE SearchFrom(pat, s, i + 1)

re_search(pat, s) == SearchFrom(pat, s, 0)


(***************************************************************************)
(* Python values.                                                          *)
(***************************************************************************)
\* None and a present value, as records of one shape so that any two
\* values can be compared.
None == [some |-> FALSE, val |-> <<>>]

Some(x) == [some |-> TRUE, val |-> x]

\* Python truthiness of an optional list: None and [] are falsy.
Truthy(v) == v.some /\ v.val # <<>>

(***************************************************************************)
(* Part I: rule table, RuleLoader, GuidedParser.                           *)
(***************************************************************************)
\* Insurer names as the user types them.
TypedInsurers == {<<"a", "C">>, <<"z">>}

\* The rows the spreadsheet may hold: Insurer, Field, Anchor Phrase, Regex
\* Pattern, Notes.
RuleRows ==
    { [Insurer |-> <<"A", "c">>, Field |-> "policy", Anchor_Phrase |-> <<"a">>,
       Regex_Pattern |-> PatDigits, Notes |-> "n1"],
      [Insurer |-> <<"A", "c">>, Field |-> "date", Anchor_Phrase |-> <<"A">>,
       Regex_Pattern |-> PatADigits, Notes |-> "n2"],
      [Insurer |-> <<"Z">>, Field |-> "policy", Anchor_Phrase |-> <<"1">>,
       Regex_Pattern |-> PatDigitsStar, Notes |-> "n3"] }

\* The anchor phrases of direct calls of extract_from_lines.
Anchors == {<<"A">>, <<"a", "1">>}

\* The rule tables: at most MaxRules rows, in any order, repeats allowed.
RuleTables == UNION {[1..n -> RuleRows] : n \in 0..MaxRules}

\* The spreadsheet file: unreadable (missing, corrupt), or a table.
ExcelFiles ==
    {[readable |-> FALSE, rows |-> <<>>]}
        \cup {[readable |-> TRUE, rows |-> t] : t \in RuleTables}

OcrTexts == StringsUpTo(Char, MaxTextLen)

NoLoader == [exists |-> FALSE, df |-> <<>>]

NoParser == [exists |-> FALSE, lines |-> <<>>, insurer |-> <<>>, rules |-> None]

NoRet == [op |-> "none", args |-> <<>>, value |-> <<>>]

VARIABLES
    excel_file,  \* parsing_rules.xlsx on disk
    pc,          \* position of the script that uses the two classes: it
                 \* constructs the loader, then asks it one query or
                 \* constructs a parser and makes one extraction call
    loader,      \* the RuleLoader object, if constructed
    parser,      \* the GuidedParser object, if constructed
    ret,         \* the most recent method call: its name, arguments, result
    exc          \* the exception that ended the run, or "none"

varsRules == <<excel_file, pc, loader, parser, ret, exc>>

\* RuleLoader.get_supported_insurers: sorted unique insurer names.  The
\* result is modelled as the set of names (sorting a set fixes the order).
get_supported_insurers(df) == {df[i].Insurer : i \in 1..Len(df)}

\* validate_insurer without the two lower() calls.
validate_insurer_exact(df, insurer_name) ==
    insurer_name \in {df[i].Insurer : i \in 1..Len(df)}

\* RuleLoader.validate_insurer
validate_insurer(df, insurer_name) ==
    Lower(insurer_name) \in {Lower(n) : n \in get_supported_insurers(df)}

\* RuleLoader.get_rules_for_insurer: the rows of the insurer, letter case
\* ignored, in table order; None when there are none.
get_rules_for_insurer(df, insurer_name) ==
    LET rules == SelectSeq(df, LAMBDA r : Lower(r.Insurer) = Lower(insurer_name))
    IN  IF rules = <<>> THEN None ELSE Some(rules)

\* A mutant of RuleLoaderInit: a failed load is swallowed and leaves a loader
\* with an empty table.
RuleLoaderInitSwallow ==
    /\ pc = "start"
    /\ loader' = [exists |-> TRUE,
                  df |-> IF excel_file.readable THEN excel_file.rows ELSE <<>>]
    /\ pc' = "loader"
    /\ exc' = "none"
    /\ UNCHANGED <<excel_file, parser, ret>>

\* RuleLoader.__init__: read the spreadsheet; a failure of read_excel is
\* re-raised as ValueError and the constructor returns no object.
RuleLoaderInit ==
    /\ pc = "start"
    /\ IF excel_file.readable
       THEN /\ loader' = [exists |-> TRUE, df |-> excel_file.rows]
            /\ pc' = "loader"
            /\ exc' = "none"
       ELSE /\ loader' = NoLoader
            /\ pc' = "raised"
            /\ exc' = "ValueError"
    /\ UNCHANGED <<excel_file, parser, ret>>

\* A call of one of the three queries on the loader object.
ValidateInsurer ==
    /\ pc = "loader"
    /\ loader.exists
    /\ \E name \in TypedInsurers :
          ret' = [op |-> "validate_insurer", args |-> <<name>>,
                  value |-> validate_insurer(loader.df, name)]
    /\ pc' = "done"
    /\ UNCHANGED <<excel_file, loader, parser, exc>>

GetRulesForInsurer ==
    /\ pc = "loader"
    /\ loader.exists
    /\ \E name \in TypedInsurers :
          ret' = [op |-> "get_rules_for_insurer", args |-> <<name>>,
                  value |-> get_rules_for_insurer(loader.df, name)]
    /\ pc' = "done"
    /\ UNCHANGED <<excel_file, loader, parser, exc>>

GetSupportedInsurers ==
    /\ pc = "loader"
    /\ loader.exists
    /\ ret' = [op |-> "get_supported_insurers", args |-> <<>>,
               value |-> get_supported_insurers(loader.df)]
    /\ pc' = "done"
    /\ UNCHANGED <<excel_file, loader, parser, exc>>

\* GuidedParser.__init__
GuidedParserInit ==
    /\ pc = "loader"
    /\ loader.exists
    /\ \E ocr_text \in OcrTexts, insurer_name \in TypedInsurers :
          /\ parser' = [exists |-> TRUE,
                        lines |-> SplitLines(ocr_text),
                        insurer |-> insurer_name,
                        rules |-> get_rules_for_insurer(loader.df, insurer_name)]
          /\ ret' = [op |-> "GuidedParser", args |-> <<ocr_text, insurer_name>>,
                     value |-> <<>>]
    /\ pc' = "parser"
    /\ UNCHANGED <<excel_file, loader, exc>>

\* A mutant of FirstAnchorLine: the anchor is compared case-sensitively.
RECURSIVE FirstAnchorLineCaseSensitive(_, _, _)
FirstAnchorLineCaseSensitive(lines, anchor, i) ==
    IF i > Len(lines) THEN 0
    ELSE IF Contains(anchor, lines[i]) THEN i
    ELSE FirstAnchorLineCaseSensitive(lines, anchor, i + 1)

\* A mutant of FirstAnchorLine: the scan stops one line early.
RECURSIVE FirstAnchorLineShort(_, _, _)
FirstAnchorLineShort(lines, anchor, i) ==
    IF i >= Len(lines) THEN 0
    ELSE IF Contains(Lower(anchor), Lower(lines[i])) THEN i
    ELSE FirstAnchorLineShort(lines, anchor, i + 1)

\* The index of the first line, from index i on, that contains the anchor
\* with letter case ignored; 0 when there is none.
RECURSIVE FirstAnchorLine(_, _, _)
FirstAnchorLine(lines, anchor, i) ==
    IF i > Len(lines) THEN 0
    ELSE IF Contains(Lower(anchor), Lower(lines[i])) THEN i
    ELSE FirstAnchorLine(lines, anchor, i + 1)

\* A mutant of extract_from_lines: the whole line is returned also when the
\* regex matches.
extract_whole_line(lines, anchor, pattern) ==
    LET i == FirstAnchorLine(lines, anchor, 1)
    IN  IF i = 0 THEN None ELSE Some(lines[i])

\* A mutant of extract_from_lines: no fallback to the line when the regex
\* does not match.
extract_no_fallback(lines, anchor, pattern) ==
    LET i == FirstAnchorLine(lines, anchor, 1)
    IN  IF i = 0 THEN None
        ELSE LET match == re_search(pattern, lines[i])
             IN  IF match.found THEN Some(match.text) ELSE None

\* A mutant of extract_from_lines: when the regex does not match the first
\* anchor line the scan goes on to the next anchor line.
RECURSIVE extract_scan_on(_, _, _)
extract_scan_on(lines, anchor, pattern) ==
    LET i == FirstAnchorLine(lines, anchor, 1)
    IN  IF i = 0 THEN None
        ELSE LET match == re_search(pattern, lines[i])
                 later == extract_scan_on(SubSeq(lines, i + 1, Len(lines)),
                                          anchor, pattern)
             IN  IF match.found THEN Some(match.text)
                 ELSE IF later.some THEN later
                 ELSE Some(lines[i])

\* GuidedParser.extract_from_lines
extract_from_lines(lines, anchor, pattern) ==
    LET i == FirstAnchorLine(lines, anchor, 1)
    IN  IF i = 0 THEN None
        ELSE LET match == re_search(pattern, lines[i])
             IN  IF match.found THEN Some(match.text) ELSE Some(lines[i])

\* The loop of extract_fields: one entry per rule, in rule order; a later
\* rule for the same field replaces the earlier entry.
RECURSIVE BuildResults(_, _, _)
BuildResults(lines, rules, results) ==
    IF rules = <<>> THEN results
    ELSE LET rule == Head(rules)
             value == extract_from_lines(lines, rule.Anchor_Phrase,
                                         rule.Regex_Pattern)
             entry == [value |-> value, source |-> rule.Anchor_Phrase,
                       notes |-> rule.Notes]
         IN  BuildResults(lines, Tail(rules),
                          (rule.Field :> entry) @@ results)

\* A mutant of ExtractFields: without the guard the loop iterates over None
\* and raises TypeError.
ExtractFieldsNoGuard ==
    /\ pc = "parser"
    /\ parser.exists
    /\ IF ~parser.rules.some
       THEN /\ ret' = [op |-> "extract_fields", args |-> <<>>, value |-> <<>>]
            /\ exc' = "TypeError"
            /\ pc' = "raised"
       ELSE /\ ret' = [op |-> "extract_fields", args |-> <<>>,
                       value |-> BuildResults(parser.lines, parser.rules.val, <<>>)]
            /\ exc' = "none"
            /\ pc' = "done"
    /\ UNCHANGED <<excel_file, loader, parser>>

\* GuidedParser.extract_fields
ExtractFields ==
    /\ pc = "parser"
    /\ parser.exists
    /\ IF ~Truthy(parser.rules)
       THEN ret' = [op |-> "extract_fields", args |-> <<>>,
                    value |-> [error |-> parser.insurer]]
       ELSE ret' = [op |-> "extract_fields", args |-> <<>>,
                    value |-> BuildResults(parser.lines, parser.rules.val, <<>>)]
    /\ pc' = "done"
    /\ UNCHANGED <<excel_file, loader, parser, exc>>

\* A direct call of GuidedParser.extract_from_lines.
ExtractFromLines ==
    /\ pc = "parser"
    /\ parser.exists
    /\ \E anchor \in Anchors, pattern \in Patterns :
          ret' = [op |-> "extract_from_lines", args |-> <<anchor, pattern>>,
                  value |-> extract_from_lines(parser.lines, anchor, pattern)]
    /\ pc' = "done"
    /\ UNCHANGED <<excel_file, loader, parser, exc>>

InitRules ==
    /\ excel_file \in ExcelFiles
    /\ pc = "start"
    /\ loader = NoLoader
    /\ parser = NoParser
    /\ ret = NoRet
    /\ exc = "none"

NextRules ==
    \/ RuleLoaderInit
    \/ ValidateInsurer
    \/ GetRulesForInsurer
    \/ GetSupportedInsurers
    \/ GuidedParserInit
    \/ ExtractFields
    \/ ExtractFromLines

(***************************************************************************)
(* Part II: the Claude receipt parser (claude_parser_app.py).              *)
(*                                                                         *)
(* Every browser session runs the script top to bottom on each user        *)
(* interaction.  The sessions share one bucket; a script run is atomic up  *)
(* to its first storage call and each storage call is one step, so that    *)
(* the runs of different sessions interleave at the storage calls.         *)
(***************************************************************************)
MAX_UPLOAD_MB == 15

Sessions == {"s1", "s2"}

\* Bounds: the days the clock can show and the confirm clicks of a behaviour.
MaxDays == 2
MaxConfirms == 3

DigitChars == {"0", "5", "7"}

\* time.strftime("%Y-%m-%d") on day d, as a text that is not a number.
DateText(d) == <<"D", <<"1", "2", "3", "4", "5", "6">>[d]>>

\* The files a user can pick in the uploader: name and size in bytes.
NoFile == [name |-> <<>>, size |-> 0]

Files ==
    { [name |-> <<"a", ".", "jpg">>, size |-> MAX_UPLOAD_MB * 1024 * 1024],
      [name |-> <<"b", ".", "png">>, size |-> 2048],
      [name |-> <<"c", ".", "pdf">>, size |-> MAX_UPLOAD_MB * 1024 * 1024 + 1] }

\* Cells of a DataFrame and of a row dict: a Python value with its type.
PyStr(text) == [t |-> "str", v |-> text]

PyInt(text) == [t |-> "int", v |-> text]

PyFloat(text) == [t |-> "float", v |-> text]

PyNone == [t |-> "none", v |-> <<>>]

NaN == [t |-> "nan", v |-> <<>>]

Columns ==
    {"system_date", "system_time", "date", "filename",
     "vendor_name", "total_amount", "invoice_number"}

\* What Claude's answer comes to: the call raised; no block holds JSON; the
\* JSON is an empty object; the JSON is a non-empty array; the JSON is an
\* object (its invoice number is a string of digits with leading zeros).
ClaudeOutcomes ==
    { [kind |-> "error", invoice_number |-> PyNone],
      [kind |-> "prose", invoice_number |-> PyNone],
      [kind |-> "empty_object", invoice_number |-> PyNone],
      [kind |-> "array", invoice_number |-> PyNone],
      [kind |-> "object", invoice_number |-> PyStr(<<"0", "0", "7">>)] }

\* call_claude_with_image: the message, or None when the request raised.
call_claude_with_image(outcome) ==
    IF outcome.kind = "error" THEN None ELSE Some(outcome)

\* The parsed_json that flatten_result ends its block loop with: None when
\* there is no message or no block parses.
ParsedJson(message) ==
    IF ~message.some THEN None
    ELSE IF message.val.kind = "prose" THEN None
    ELSE message

\* `not parsed_json`: None, {} and [] are falsy.
JsonTruthy(parsed_json) ==
    parsed_json.some /\ parsed_json.val.kind \in {"array", "object"}

\* flatten_result, for a message whose JSON is an object: the inventory row.
InventoryRow(filename, day, parsed_json) ==
    [system_date |-> PyStr(DateText(day)),
     system_time |-> PyStr(<<"t">>),
     date |-> PyStr(<<"r">>),
     filename |-> PyStr(filename),
     vendor_name |-> PyStr(<<"v">>),
     total_amount |-> PyFloat(<<"7", ".", "5">>),
     invoice_number |-> parsed_json.val.invoice_number]

\* DataFrame.to_csv(index=False), one cell: None and NaN print as nothing.
CellToCsv(cell) == IF cell.t \in {"none", "nan"} THEN <<>> ELSE cell.v

to_csv(df) == [i \in 1..Len(df) |-> [c \in Columns |-> CellToCsv(df[i][c])]]

IsIntText(text) ==
    /\ text # <<>>
    /\ \A k \in 1..Len(text) : text[k] \in DigitChars

IsFloatText(text) ==
    \E d \in 2..(Len(text) - 1) :
        /\ text[d] = "."
        /\ \A k \in (1..Len(text)) \ {d} : text[k] \in DigitChars

\* int("007") printed back: leading zeros are gone.
RECURSIVE StripZeros(_)
StripZeros(text) ==
    IF Len(text) > 1 /\ Head(text) = "0" THEN StripZeros(Tail(text)) ELSE text

\* The dtype pandas.read_csv infers for column c of the stored rows.
ColumnType(csv, c) ==
    LET cells == {csv[i][c] : i \in 1..Len(csv)}
    IN  IF \A x \in cells : IsIntText(x) THEN "int"
        ELSE IF \A x \in cells : x = <<>> \/ IsIntText(x) \/ IsFloatText(x)
             THEN "float"
        ELSE "object"

ParseCell(type, text) ==
    CASE type = "int" -> PyInt(StripZeros(text))
      [] type = "float" ->
            IF text = <<>> THEN NaN
            ELSE IF IsIntText(text) THEN PyFloat(StripZeros(text) \o <<".", "0">>)
            ELSE PyFloat(text)
      [] OTHER -> IF text = <<>> THEN NaN ELSE PyStr(text)

\* pandas.read_csv: the cells typed column by column.
read_csv(csv) ==
    [i \in 1..Len(csv) |-> [c \in Columns |-> ParseCell(ColumnType(csv, c), csv[i][c])]]

NoBlob == [exists |-> FALSE, rows |-> <<>>]

\* load_master_inventory: the stored CSV as a DataFrame, or an empty frame.
load_master_inventory(inv) == IF inv.exists THEN read_csv(inv.rows) ELSE <<>>

\* The duplicate test of append_to_inventory.
IsDuplicate(df, row) ==
    /\ df # <<>>
    /\ row["filename"] \in {df[i]["filename"] : i \in 1..Len(df)}
    /\ row["system_date"] \in {df[i]["system_date"] : i \in 1..Len(df)}

\* Blob names: uploads/<name> and uploads/<stem>.list
ImageBlob(name) == <<"uploads/">> \o name

ListBlob(name) == <<"uploads/">> \o SubSeq(name, 1, Len(name) - 2) \o <<".", "list">>

NoRow == [c \in Columns |-> PyNone]

IdleSession ==
    [pc |-> "idle", uploaded |-> NoFile, button_shown |-> FALSE,
     claude |-> "none", clicked |-> FALSE, row |-> NoRow, df |-> <<>>, added |-> FALSE,
     writes |-> {}, outcome |-> "none", temp |-> FALSE, issued |-> {}]

VARIABLES
    today,      \* the day the server clock shows
    blobs,      \* names of the image and .list blobs in the bucket
    inventory,  \* the blob uploads/parsed_inventory.csv: its data rows
    sess,       \* per session: widget state and the locals of its script run
    confirms    \* confirm clicks so far

varsClaude == <<today, blobs, inventory, sess, confirms>>

\* The end of a script run: the locals are gone; the uploader keeps its
\* file and the page shows what Claude's answer came to, the confirm button
\* or not, and how the run ended.
EndRun(r, how) ==
    [IdleSession EXCEPT !.uploaded = r.uploaded,
                        !.button_shown = r.button_shown,
                        !.claude = r.claude,
                        !.temp = r.temp,
                        !.outcome = how]

\* A mutant of TooLarge: a file of exactly the limit is rejected as well.
TooLargeInclusive(file) == file.size >= MAX_UPLOAD_MB * 1024 * 1024

\* The size guard.
TooLarge(file) == file.size > MAX_UPLOAD_MB * 1024 * 1024

\* The external request that a run issues at each of its steps.
Request(at) ==
    CASE at = "upload_image" -> "upload_image"
      [] at = "save_list" -> "upload_list"
      [] at = "append" -> "download_inventory"
      [] at = "save_inventory" -> "upload_inventory"
      [] at = "show_inventory" -> "download_latest"
      [] OTHER -> "none"

\* The script from its top to the confirm button, run with the file now in
\* the uploader and Claude's answer; click tells whether the run was started
\* by a click on the confirm button, and button is what st.button returns.
ScriptToButton(file, outcome, click, button) ==
    LET message == call_claude_with_image(outcome)
        parsed_json == ParsedJson(message)
        start == [IdleSession EXCEPT !.uploaded = file, !.pc = "running"]
    IN  IF file = NoFile
        THEN EndRun(start, "done")
        ELSE IF TooLarge(file)
        THEN EndRun(start, "done")
        ELSE LET saved == [start EXCEPT !.temp = TRUE, !.issued = {"claude"}]
                 failed == [saved EXCEPT !.claude = "failed"]
                 parsed == [saved EXCEPT !.claude = "parsed"]
             IN  IF ~JsonTruthy(parsed_json)
                 THEN EndRun(failed, "done")
                 ELSE IF parsed_json.val.kind = "array"
                 THEN EndRun(parsed, "AttributeError")
                 ELSE LET shown == [parsed EXCEPT !.button_shown = TRUE,
                                                  !.clicked = click]
                      IN  IF button
                          THEN [shown EXCEPT
                                  !.pc = "upload_image",
                                  !.row = InventoryRow(file.name, today, parsed_json)]
                          ELSE EndRun(shown, "done")

\* A mutant of RunScript: the uploads do not wait for the confirm click.
RunScriptNoConfirm(s, file, outcome, click) ==
    ScriptToButton(file, outcome, click, TRUE)

\* One script run of session s: st.button returns True exactly in the run
\* that the click on it started.
RunScript(s, file, outcome, click) ==
    ScriptToButton(file, outcome, click, click)

\* The user picks another file: the script reruns.
PickFile(s) ==
    /\ sess[s].pc = "idle"
    /\ \E file \in Files, outcome \in ClaudeOutcomes :
          /\ file # sess[s].uploaded
          /\ sess' = [sess EXCEPT ![s] = RunScript(s, file, outcome, FALSE)]
    /\ UNCHANGED <<today, blobs, inventory, confirms>>

\* The user clicks the confirm button that the last run showed: the script
\* reruns with the same file, asks Claude again, and st.button gives True.
ClickConfirm(s) ==
    /\ sess[s].pc = "idle"
    /\ sess[s].button_shown
    /\ confirms < MaxConfirms
    /\ confirms' = confirms + 1
    /\ \E outcome \in ClaudeOutcomes :
          sess' = [sess EXCEPT ![s] = RunScript(s, sess[s].uploaded, outcome, TRUE)]
    /\ UNCHANGED <<today, blobs, inventory>>

\* A mutant of StorageRaises: the failed request is issued again.
StorageRaisesRetry(s) ==
    /\ sess' = [sess EXCEPT ![s].issued = @ \cup {Request(sess[s].pc)}]
    /\ UNCHANGED <<today, blobs, inventory, confirms>>

\* A storage call that raises ends the run: nothing catches it.
StorageRaises(s) ==
    /\ sess' = [sess EXCEPT ![s] = EndRun(@, "StorageError")]
    /\ UNCHANGED <<today, blobs, inventory, confirms>>

\* upload_to_gcs(temp_path, dest_image), line 321
UploadImage(s) ==
    /\ sess[s].pc = "upload_image"
    /\ \/ /\ blobs' = blobs \cup {ImageBlob(sess[s].uploaded.name)}
          /\ sess' = [sess EXCEPT ![s].pc = "save_list",
                                  ![s].issued = @ \cup {Request("upload_image")},
                                  ![s].writes = @ \cup {"image"}]
          /\ UNCHANGED <<today, inventory, confirms>>
       \/ StorageRaises(s)

\* save_list_file(uploaded_file.name, parsed_json), line 325
SaveListFile(s) ==
    /\ sess[s].pc = "save_list"
    /\ \/ /\ blobs' = blobs \cup {ListBlob(sess[s].uploaded.name)}
          /\ sess' = [sess EXCEPT ![s].pc = "append",
                                  ![s].issued = @ \cup {Request("save_list")},
                                  ![s].writes = @ \cup {"list"}]
          /\ UNCHANGED <<today, inventory, confirms>>
       \/ StorageRaises(s)

\* A mutant of AppendLoad: a refused row rolls the run back, the two blobs
\* it wrote are deleted and the run ends.
AppendLoadRollback(s) ==
    /\ sess[s].pc = "append"
    /\ LET df == load_master_inventory(inventory)
           row == sess[s].row
       IN  IF IsDuplicate(df, row)
           THEN /\ blobs' = blobs \ {ImageBlob(sess[s].uploaded.name),
                                     ListBlob(sess[s].uploaded.name)}
                /\ sess' = [sess EXCEPT ![s] = EndRun(@, "done")]
                /\ UNCHANGED <<today, inventory, confirms>>
           ELSE /\ sess' = [sess EXCEPT ![s].pc = "save_inventory",
                                        ![s].issued = @ \cup {Request("append")},
                                        ![s].df = Append(df, row)]
                /\ UNCHANGED <<today, blobs, inventory, confirms>>

\* append_to_inventory up to its save: load the inventory, refuse a
\* duplicate, else add the row to the loaded frame.
AppendLoad(s) ==
    /\ sess[s].pc = "append"
    /\ \/ LET df == load_master_inventory(inventory)
              row == sess[s].row
          IN  /\ IF IsDuplicate(df, row)
                 THEN sess' = [sess EXCEPT ![s].pc = "show_inventory",
                                           ![s].issued = @ \cup {Request("append")},
                                           ![s].df = df,
                                           ![s].added = FALSE]
                 ELSE sess' = [sess EXCEPT ![s].pc = "save_inventory",
                                           ![s].issued = @ \cup {Request("append")},
                                           ![s].df = Append(df, row)]
              /\ UNCHANGED <<today, blobs, inventory, confirms>>
       \/ StorageRaises(s)

\* A mutant of AppendSave: the save merges, it writes the rows stored now
\* plus the row of this run instead of the frame the run holds.
AppendSaveMerge(s) ==
    /\ sess[s].pc = "save_inventory"
    /\ inventory' = [exists |-> TRUE,
                     rows |-> to_csv(Append(load_master_inventory(inventory),
                                            sess[s].row))]
    /\ sess' = [sess EXCEPT ![s].pc = "show_inventory",
                            ![s].issued = @ \cup {Request("save_inventory")},
                            ![s].added = TRUE,
                            ![s].writes = @ \cup {"inventory"}]
    /\ UNCHANGED <<today, blobs, confirms>>

\* save_master_inventory(df), then `return df, True`
AppendSave(s) ==
    /\ sess[s].pc = "save_inventory"
    /\ \/ /\ inventory' = [exists |-> TRUE, rows |-> to_csv(sess[s].df)]
          /\ sess' = [sess EXCEPT ![s].pc = "show_inventory",
                                  ![s].issued = @ \cup {Request("save_inventory")},
                                  ![s].added = TRUE,
                                  ![s].writes = @ \cup {"inventory"}]
          /\ UNCHANGED <<today, blobs, confirms>>
       \/ StorageRaises(s)

\* load_master_inventory() for the display at the end of the run, line 336
ShowInventory(s) ==
    /\ sess[s].pc = "show_inventory"
    /\ \/ /\ sess' = [sess EXCEPT ![s] = EndRun(@, "done")]
          /\ UNCHANGED <<today, blobs, inventory, confirms>>
       \/ StorageRaises(s)

\* Midnight passes on the server.
NextDay ==
    /\ today < MaxDays
    /\ today' = today + 1
    /\ UNCHANGED <<blobs, inventory, sess, confirms>>

InitClaude ==
    /\ today = 1
    /\ blobs = {}
    /\ inventory = NoBlob
    /\ sess = [s \in Sessions |-> IdleSession]
    /\ confirms = 0

NextClaude ==
    \/ NextDay
    \/ \E s \in Sessions :
          \/ PickFile(s)
          \/ ClickConfirm(s)
          \/ UploadImage(s)
          \/ SaveListFile(s)
          \/ AppendLoad(s)
          \/ AppendSave(s)
          \/ ShowInventory(s)

(***************************************************************************)
(* Part III.  The token-gated apps: src/insurance_tracker_app.py and       *)
(* src/tagged_receipt_pair_uploader_v2.py.                                 *)
(*                                                                         *)
(* Both scripts resolve the URL token to a tag before anything else and    *)
(* stop the run when there is none.  A file-system path is a list of       *)
(* segments that is absolute or relative to the working directory.         *)
(***************************************************************************)
DigitText == <<"0", "1", "2", "3", "4", "5", "6", "7", "8", "9">>

\* f"{i:02}" for i in 0..99
TwoDigits(i) == DigitText[(i \div 10) + 1] \o DigitText[(i % 10) + 1]

\* token_map = {f"{i:02}": f"{i:02}" for i in range(1, 100)}
token_map == [t \in {TwoDigits(i) : i \in 1..99} |-> t]

\* The tokens a URL can carry; "" is what the script reads when there is none.
Tokens == {"", "00", "01", "99", "100", "a1"}

\* token_map.get(upload_token): the tag, or "" for None (both are falsy).
TagOf(upload_token) ==
    IF upload_token \in DOMAIN token_map THEN token_map[upload_token] ELSE ""

Rel(segs) == [abs |-> FALSE, segs |-> segs]

Abs(segs) == [abs |-> TRUE, segs |-> segs]

\* os.path.join(p, q): an absolute q throws p away.
path_join(p, q) ==
    IF q.abs THEN q ELSE [abs |-> p.abs, segs |-> p.segs \o q.segs]

\* The working directory of the script.
Cwd == <<"srv">>

\* The directory reached from `at` by walking segs; ".." goes one up.
RECURSIVE Walk(_, _)
Walk(at, segs) ==
    IF segs = <<>> THEN at
    ELSE IF Head(segs) = ".."
         THEN Walk(IF at = <<>> THEN at ELSE SubSeq(at, 1, Len(at) - 1), Tail(segs))
         ELSE Walk(Append(at, Head(segs)), Tail(segs))

\* The place in the file system that the operating system opens for path p.
Location(p) == Walk(IF p.abs THEN <<>> ELSE Cwd, p.segs)

\* os.makedirs(p, exist_ok=True): the directories it leaves in place.
MadeDirs(p) ==
    {Location([p EXCEPT !.segs = SubSeq(p.segs, 1, k)]) : k \in 1..Len(p.segs)}

\* str.replace(" ", "_") on the segments of the texts below.
ReplaceSpaces(segs) ==
    [k \in 1..Len(segs) |->
        IF segs[k] = "Toyota Camry" THEN "Toyota_Camry" ELSE segs[k]]

\* What extract_fields finds in the OCR text: a plate number or none, and
\* the text after "Vehicle:" up to the end of its line or none.
NoField == [found |-> FALSE, text |-> Rel(<<>>)]

Field(text) == [found |-> TRUE, text |-> text]

PlateFields == {NoField, Field(Rel(<<"AB123">>))}

VehicleFields ==
    {NoField,
     Field(Rel(<<"Toyota Camry">>)),
     Field(Rel(<<"..", "..", "99", "Car", "X">>)),
     Field(Abs(<<"etc">>))}

\* fields.get("plate_no", fields.get("vehicle", "UnknownVehicle")).replace(" ", "_")
vehicle_id(plate_no, vehicle) ==
    LET text == IF plate_no.found THEN plate_no.text
                ELSE IF vehicle.found THEN vehicle.text
                ELSE Rel(<<"UnknownVehicle">>)
    IN  [text EXCEPT !.segs = ReplaceSpaces(@)]

\* base_folder = f"data/{tag_id}/"
base_folder(tag_id) == Rel(<<"data", tag_id>>)

\* folder_path = os.path.join(base_folder, "Car", vehicle_id)
folder_path(tag_id, plate_no, vehicle) ==
    path_join(path_join(base_folder(tag_id), Rel(<<"Car">>)),
              vehicle_id(plate_no, vehicle))

\* The insurance photos a user can pick; "" is no file.
PhotoNames == {"", "p.jpg"}

IdleTracker ==
    [pc |-> "idle", token |-> "", tag_id |-> "", stopped |-> FALSE,
     file |-> "", folder |-> Rel(<<>>), written |-> {}]

VARIABLES
    tracker,    \* the run of insurance_tracker_app: its locals and what it wrote
    disk        \* the files and directories of the server's file system

varsTracker == <<tracker, disk>>

\* One run of the script from its top to os.makedirs.
TrackerRun(upload_token, file, submit, plate_no, vehicle) ==
    LET tag_id == TagOf(upload_token)
        start == [IdleTracker EXCEPT !.token = upload_token, !.tag_id = tag_id,
                                     !.file = file]
    IN  IF tag_id = ""
        THEN [start EXCEPT !.stopped = TRUE]
        ELSE IF submit /\ file # ""
        THEN [start EXCEPT !.pc = "makedirs",
                           !.folder = folder_path(tag_id, plate_no, vehicle)]
        ELSE start

\* The page is opened or the user interacts with it: the script runs.
TrackerRerun ==
    /\ tracker.pc = "idle"
    /\ \E upload_token \in Tokens, file \in PhotoNames, submit \in BOOLEAN,
          plate_no \in PlateFields, vehicle \in VehicleFields :
          tracker' = TrackerRun(upload_token, file, submit, plate_no, vehicle)
    /\ UNCHANGED disk

\* os.makedirs(folder_path, exist_ok=True)
TrackerMakeDirs ==
    /\ tracker.pc = "makedirs"
    /\ disk' = disk \cup MadeDirs(tracker.folder)
    /\ tracker' = [tracker EXCEPT !.pc = "write_file",
                                  !.written = @ \cup (MadeDirs(tracker.folder) \ disk)]

\* open(file_path, "wb") and the write of the photo
TrackerWriteFile ==
    /\ tracker.pc = "write_file"
    /\ LET file_path == Location(path_join(tracker.folder, Rel(<<tracker.file>>)))
       IN  /\ disk' = disk \cup {file_path}
           /\ tracker' = [tracker EXCEPT !.pc = "write_metadata",
                                         !.written = @ \cup {file_path}]

\* the read of metadata.json when it exists, and its write
TrackerWriteMetadata ==
    /\ tracker.pc = "write_metadata"
    /\ LET metadata_path == Location(path_join(tracker.folder, Rel(<<"metadata.json">>)))
       IN  /\ disk' = disk \cup {metadata_path}
           /\ tracker' = [tracker EXCEPT !.pc = "idle",
                                         !.written = @ \cup {metadata_path}]

InitTracker ==
    /\ tracker = IdleTracker
    /\ disk = {}

NextTracker ==
    \/ TrackerRerun
    \/ TrackerMakeDirs
    \/ TrackerWriteFile
    \/ TrackerWriteMetadata

\* ---- src/tagged_receipt_pair_uploader_v2.py ----
\* What a file uploader holds: nothing, a file of zero bytes, an image.
UploadKinds == {"none", "empty", "image"}

\* What process_document_bytes comes to: it raised, or it returned a
\* document without entities or with at least one.
DocOutcomes == {"raised", "no_entities", "entities"}

Menus == {"Upload Receipt Pair", "Contact"}

\* now.strftime('%Y-%m')
Month == "2025-01"

\* folder + make_unique_filename(tag, kind): the timestamp and the random
\* id that end the name are left out, so that the bucket records which
\* kinds of file were stored for which tag.
BlobPath(tag, kind) == <<tag, Month, tag \o "_" \o kind>>

\* The document that the try/except around process_document_bytes leaves.
DocumentOf(outcome) == IF outcome = "raised" THEN "none" ELSE outcome

\* A mutant of has_entities: any returned document counts as parsed.
has_document(doc) == doc # "none" /\ doc # "not_called"

\* `doc is not None and getattr(doc, "entities", None)`
has_entities(doc) == doc = "entities"

IdlePair ==
    [pc |-> "idle", token |-> "", tag_id |-> "", stopped |-> FALSE,
     receipt_file |-> "none", payment_file |-> "none",
     receipt_doc |-> "not_called", payment_doc |-> "not_called",
     attempted |-> {}, uploaded |-> {}, outcome |-> "none"]

VARIABLES
    pair,       \* the run of the receipt pair uploader: its locals and uploads
    bucket      \* the blobs of receipt-upload-bucket-mc

varsPair == <<pair, bucket>>

\* One run of the script from its top to the upload gating.
PairRun(upload_token, menu, receipt_file, payment_file, receipt_outcome, payment_outcome) ==
    LET tag_id == TagOf(upload_token)
        start == [IdlePair EXCEPT !.token = upload_token, !.tag_id = tag_id]
        files == [start EXCEPT !.receipt_file = receipt_file,
                               !.payment_file = payment_file]
        payment_bytes == payment_file = "image"
        docs == [files EXCEPT
                   !.receipt_doc = DocumentOf(receipt_outcome),
                   !.payment_doc = IF payment_bytes THEN DocumentOf(payment_outcome)
                                   ELSE "not_called"]
    IN  IF tag_id = ""
        THEN [start EXCEPT !.stopped = TRUE, !.outcome = "stopped"]
        ELSE IF menu # "Upload Receipt Pair"
        THEN [start EXCEPT !.outcome = "done"]
        ELSE IF receipt_file = "none"
        THEN [files EXCEPT !.outcome = "done"]
        ELSE IF receipt_file = "empty" \/ payment_file = "empty"
        THEN [files EXCEPT !.outcome = "UnidentifiedImageError"]
        ELSE IF has_entities(docs.receipt_doc)
        THEN [docs EXCEPT !.pc = "upload_receipt"]
        ELSE [docs EXCEPT !.outcome = "done"]

\* The page is opened or the user interacts with it: the script runs.
PairRerun ==
    /\ pair.pc = "idle"
    /\ \E upload_token \in Tokens, menu \in Menus,
          receipt_file \in UploadKinds, payment_file \in UploadKinds,
          receipt_outcome \in DocOutcomes, payment_outcome \in DocOutcomes :
          pair' = PairRun(upload_token, menu, receipt_file, payment_file,
                          receipt_outcome, payment_outcome)
    /\ UNCHANGED bucket

\* upload_bytes_to_gcs raises: nothing catches it, the run ends.
PairUploadRaises(kind) ==
    /\ pair' = [pair EXCEPT !.pc = "idle", !.outcome = "StorageError",
                            !.attempted = @ \cup {kind}]
    /\ UNCHANGED bucket

\* upload_bytes_to_gcs(receipt_bytes, receipt_filename, ...), line 255
PairUploadReceipt ==
    /\ pair.pc = "upload_receipt"
    /\ \/ /\ bucket' = bucket \cup {BlobPath(pair.tag_id, "receipt")}
          /\ pair' = [pair EXCEPT
                        !.attempted = @ \cup {"receipt"},
                        !.uploaded = @ \cup {"receipt"},
                        !.pc = IF pair.payment_file = "image"
                               THEN "upload_payment" ELSE "idle",
                        !.outcome = IF pair.payment_file = "image"
                                    THEN "none" ELSE "done"]
       \/ PairUploadRaises("receipt")

\* upload_bytes_to_gcs(payment_bytes, payment_filename, ...), lines 258-265
PairUploadPayment ==
    /\ pair.pc = "upload_payment"
    /\ LET kind == IF has_entities(pair.payment_doc)
                   THEN "payment" ELSE "payment_unparsed"
       IN  \/ /\ bucket' = bucket \cup {BlobPath(pair.tag_id, kind)}
              /\ pair' = [pair EXCEPT !.attempted = @ \cup {kind},
                                      !.uploaded = @ \cup {kind},
                                      !.pc = "idle", !.outcome = "done"]
           \/ PairUploadRaises(kind)

InitPair ==
    /\ pair = IdlePair
    /\ bucket = {}

NextPair ==
    \/ PairRerun
    \/ PairUploadReceipt
    \/ PairUploadPayment

(***************************************************************************)
(* Part IV.  The grouped uploader: src/upload_template_desktop.py.         *)
(*                                                                         *)
(* st.session_state lives across the reruns of one browser session.  A     *)
(* click runs the button's callback and then the script; the buttons that  *)
(* can be clicked are the ones the last run drew.                          *)
(***************************************************************************)
\* Bound: the groups the app creates in one behaviour.
MaxGroups == 2

\* The document slots (of the four) the user puts an image into.
UserSlots == {1, 4}

\* The four image slots of a group, all empty ([None] * 4).
NoImages == [i \in 1..4 |-> "None"]

\* A group the app created (lines 25-29 and 62-66), and a group that came
\* from a progress file.  origin and n stand for the identity of the dict.
NewGroup(n) ==
    [origin |-> "app", n |-> n, claimant_id |-> "Donald Trump", images |-> NoImages]

FileGroup(n) ==
    [origin |-> "file", n |-> n, claimant_id |-> "Joe Biden", images |-> NoImages]

\* The identity of a group, whatever the form has written into it.
GroupId(g) == [origin |-> g.origin, n |-> g.n]

\* The progress uploader: empty, a file that is not the expected JSON, and
\* files with the two lists.
NoPayload == [kind |-> "none", submitted_groups |-> <<>>, groups |-> <<>>]

Payloads ==
    { [kind |-> "invalid", submitted_groups |-> <<>>, groups |-> <<>>],
      [kind |-> "json", submitted_groups |-> <<>>, groups |-> <<FileGroup(1)>>],
      [kind |-> "json", submitted_groups |-> <<FileGroup(1)>>,
       groups |-> <<FileGroup(2)>>],
      [kind |-> "json", submitted_groups |-> <<FileGroup(1)>>,
       groups |-> <<FileGroup(2), FileGroup(3)>>],
      [kind |-> "json", submitted_groups |-> <<FileGroup(1)>>, groups |-> <<>>] }

\* st.session_state after the first run of the script.
FirstSessionState ==
    [loaded_from_file |-> FALSE,
     groups |-> <<NewGroup(1)>>,
     submitted_groups |-> <<>>,
     confirm_triggered |-> FALSE,
     upload_triggered |-> FALSE,
     final_confirm_triggered |-> FALSE,
     init_next_group |-> FALSE]

\* The keyed widgets of the group form when no form is drawn.  group_idx is
\* the number in the widget keys.
NoWidgets == [group_idx |-> 0, claimant_id |-> "Donald Trump", images |-> NoImages]

VARIABLES
    session_state,  \* st.session_state
    load_progress,  \* the file in the "Load saved progress" uploader
    widgets,        \* the values of the keyed widgets of the group form
    offered,        \* the sidebar buttons the last run drew
    created,        \* how many groups the app has created
    triggered,      \* history: the callbacks run, each with the current group
    error           \* the exception that ended the last run, or "none"

varsDesktop ==
    <<session_state, load_progress, widgets, offered, created, triggered, error>>

\* Section 1: hydrate the two lists from the file, once.
LoadProgress(ss, file) ==
    IF file.kind = "json" /\ ~ss.loaded_from_file
    THEN [ss EXCEPT !.submitted_groups = file.submitted_groups,
                    !.groups = file.groups,
                    !.loaded_from_file = TRUE]
    ELSE ss

\* Section 4 without line 68: final_confirm_triggered stays set.
InitNextGroupKeepsFlag(ss, n) ==
    IF ss.init_next_group
    THEN [ss EXCEPT !.groups = <<NewGroup(n)>>,
                    !.init_next_group = FALSE]
    ELSE ss

\* Section 4: a new current group after a final confirmation.
InitNextGroup(ss, n) ==
    IF ss.init_next_group
    THEN [ss EXCEPT !.groups = <<NewGroup(n)>>,
                    !.init_next_group = FALSE,
                    !.final_confirm_triggered = FALSE]
    ELSE ss

\* Section 5: the buttons of the sidebar.
Sidebar(ss) ==
    (IF ss.groups # <<>>
     THEN {"confirm"} \cup
          (IF ss.confirm_triggered /\ ~ss.upload_triggered THEN {"upload"} ELSE {})
     ELSE {})
    \cup
    (IF ss.upload_triggered /\ ~ss.final_confirm_triggered THEN {"final"} ELSE {})

\* Section 7, the widgets: the keys carry group_idx, so a form with the
\* number of the last run keeps the browser's values and a form with another
\* number starts from the defaults (claimant by the index argument, no file).
FormWidgets(ss, w) ==
    IF ss.groups = <<>>
    THEN NoWidgets
    ELSE LET group_idx == Len(ss.submitted_groups) + 1
         IN  IF w.group_idx = group_idx
             THEN w
             ELSE [group_idx |-> group_idx,
                   claimant_id |-> IF ss.groups[1].claimant_id = "Donald Trump"
                                   THEN "Donald Trump" ELSE "Joe Biden",
                   images |-> NoImages]

\* Section 7, the assignments: the widgets' values go into the current group.
RenderGroupForm(ss, w) ==
    IF ss.groups = <<>>
    THEN ss
    ELSE [ss EXCEPT !.groups[1].claimant_id = FormWidgets(ss, w).claimant_id,
                    !.groups[1].images = FormWidgets(ss, w).images]

\* Section 10: json.dumps of the two lists raises TypeError when a group
\* holds an uploaded file, which is not JSON serialisable.
SaveProgressRaises(ss) ==
    /\ ss.submitted_groups # <<>>
    /\ \E list \in {ss.submitted_groups, ss.groups} :
          \E k \in 1..Len(list) : \E i \in 1..4 : list[k].images[i] # "None"

\* One run of the script on session state ss, with w in the browser's widgets.
Rerun(ss, file, w) ==
    IF file.kind = "invalid" /\ ~ss.loaded_from_file
    THEN /\ session_state' = ss
         /\ widgets' = w
         /\ offered' = {}
         /\ created' = created
         /\ error' = "JSONDecodeError"
    ELSE LET loaded == LoadProgress(ss, file)
             ready == InitNextGroup(loaded, created + 1)
         IN  /\ session_state' = RenderGroupForm(ready, w)
             /\ widgets' = FormWidgets(ready, w)
             /\ created' = IF loaded.init_next_group THEN created + 1 ELSE created
             /\ offered' = Sidebar(ready)
             /\ error' = IF ready.upload_triggered /\ ready.groups = <<>>
                         THEN "NameError"
                         ELSE IF SaveProgressRaises(RenderGroupForm(ready, w))
                              THEN "TypeError" ELSE "none"

\* The current group at the time of a click, for the history.
Current ==
    IF session_state.groups = <<>> THEN {} ELSE {GroupId(session_state.groups[1])}

\* on_click = confirm_group
ClickConfirmGroup ==
    /\ "confirm" \in offered
    /\ Rerun([session_state EXCEPT !.confirm_triggered = TRUE], load_progress, widgets)
    /\ triggered' = triggered \cup {<<"confirm", g>> : g \in Current}
    /\ UNCHANGED load_progress

\* on_click = upload_group
ClickUploadGroup ==
    /\ "upload" \in offered
    /\ Rerun([session_state EXCEPT !.upload_triggered = TRUE], load_progress, widgets)
    /\ triggered' = triggered \cup {<<"upload", g>> : g \in Current}
    /\ UNCHANGED load_progress

\* The body of final_confirm, lines 51-58, on a non-empty groups list.
final_confirm(ss) ==
    [ss EXCEPT !.groups = Tail(@),
               !.submitted_groups = Append(@, ss.groups[1]),
               !.confirm_triggered = FALSE,
               !.upload_triggered = FALSE,
               !.final_confirm_triggered = TRUE,
               !.init_next_group = TRUE]

\* on_click = final_confirm; groups.pop(0) raises on an empty list.
ClickFinalConfirm ==
    /\ "final" \in offered
    /\ created < MaxGroups
    /\ IF session_state.groups = <<>>
       THEN /\ error' = "IndexError"
            /\ offered' = {}
            /\ UNCHANGED <<session_state, widgets, created>>
       ELSE Rerun(final_confirm(session_state), load_progress, widgets)
    /\ UNCHANGED <<load_progress, triggered>>

\* The user puts a file into the progress uploader, or takes it out.
PickProgressFile ==
    /\ \E file \in Payloads \cup {NoPayload} :
          /\ file # load_progress
          /\ load_progress' = file
          /\ Rerun(session_state, file, widgets)
    /\ UNCHANGED triggered

\* The user picks the other claimant in the form's selectbox.
SelectClaimant ==
    /\ widgets.group_idx # 0
    /\ \E c \in {"Donald Trump", "Joe Biden"} :
          /\ c # widgets.claimant_id
          /\ Rerun(session_state, load_progress, [widgets EXCEPT !.claimant_id = c])
    /\ UNCHANGED <<load_progress, triggered>>

\* The user puts an image into one of the form's document uploaders.
UploadDocument ==
    /\ widgets.group_idx # 0
    /\ \E img_idx \in UserSlots :
          /\ widgets.images[img_idx] = "None"
          /\ Rerun(session_state, load_progress,
                   [widgets EXCEPT !.images[img_idx] = "file"])
    /\ UNCHANGED <<load_progress, triggered>>

InitDesktop ==
    /\ session_state = FirstSessionState
    /\ load_progress = NoPayload
    /\ widgets = FormWidgets(FirstSessionState, NoWidgets)
    /\ offered = Sidebar(FirstSessionState)
    /\ created = 1
    /\ triggered = {}
    /\ error = "none"

NextDesktop ==
    \/ ClickConfirmGroup
    \/ ClickUploadGroup
    \/ ClickFinalConfirm
    \/ PickProgressFile
    \/ SelectClaimant
    \/ UploadDocument

(***************************************************************************)
(* Part V.  clean_json_text of src/claude_parser_app.py, on the text of    *)
(* one content block of Claude's answer.                                   *)
(***************************************************************************)
\* s.startswith(prefix)
StartsWith(prefix, s) ==
    Len(prefix) <= Len(s) /\ SubSeq(s, 1, Len(prefix)) = prefix

\* s.strip(chars): leading and trailing characters of the set removed.
RECURSIVE StripChars(_, _)
StripChars(s, chars) ==
    IF s # <<>> /\ Head(s) \in chars THEN StripChars(Tail(s), chars)
    ELSE IF s # <<>> /\ s[Len(s)] \in chars
         THEN StripChars(SubSeq(s, 1, Len(s) - 1), chars)
    ELSE s

\* The backquote character.
Tick == "backquote"

Fence == <<Tick, Tick, Tick>>

\* The 0-based index of the first "{" or "[" at or after i, or -1 for None.
RECURSIVE FirstJsonIdx(_, _)
FirstJsonIdx(text, i) ==
    IF i >= Len(text) THEN -1
    ELSE IF text[i + 1] \in {"{", "["} THEN i
    ELSE FirstJsonIdx(text, i + 1)

\* The brace-counting loop from index i on: end_idx, or 0 for None.
RECURSIVE BraceEnd(_, _, _)
BraceEnd(text, i, open_braces) ==
    IF i >= Len(text) THEN 0
    ELSE IF text[i + 1] = "{" THEN BraceEnd(text, i + 1, open_braces + 1)
    ELSE IF text[i + 1] = "}"
         THEN IF open_braces - 1 = 0 THEN i + 1
              ELSE BraceEnd(text, i + 1, open_braces - 1)
    ELSE BraceEnd(text, i + 1, open_braces)

clean_json_text(block_text) ==
    LET stripped == Strip(block_text)
        bare == StripChars(stripped, {Tick, " ", "\n"})
        unfenced ==
            IF StartsWith(Fence, stripped)
            THEN IF StartsWith(<<"j", "s", "o", "n">>, Lower(bare))
                 THEN Strip(SubSeq(bare, 5, Len(bare)))
                 ELSE bare
            ELSE stripped
        first_json_idx == FirstJsonIdx(unfenced, 0)
        from_json ==
            IF first_json_idx # -1
            THEN SubSeq(unfenced, first_json_idx + 1, Len(unfenced))
            ELSE unfenced
        end_idx == BraceEnd(from_json, 0, 0)
        trimmed == IF end_idx # 0 THEN SubSeq(from_json, 1, end_idx) ELSE from_json
    IN  Strip(trimmed)

\* What can stand before the JSON: nothing, prose, a fence, a fence with a
\* label.
Leads ==
    { <<>>,
      <<"p", ":", " ">>,
      <<Tick, Tick, Tick, "\n">>,
      <<Tick, Tick, Tick, "j", "s", "o", "n", "\n">>,
      <<Tick, Tick, Tick, "J", "s", "o", "n", "\n">> }

\* Syntactically valid JSON objects and arrays.
JsonTexts ==
    { <<"{", "}">>,
      <<"{", "\"", "k", "\"", ":", "1", "}">>,
      <<"{", "\"", "k", "\"", ":", "{", "}", "}">>,
      <<"{", "\"", "k", "\"", ":", "[", "1", "]", "}">>,
      <<"[", "]">>,
      <<"[", "1", "]">>,
      <<"[", "{", "}", "]">>,
      <<"[", "{", "}", ",", "{", "}", "]">> }

\* What can stand after the JSON: nothing, prose, the closing fence, the
\* closing fence and prose.
Trails ==
    { <<>>,
      <<" ", "p">>,
      <<"\n", Tick, Tick, Tick>>,
      <<"\n", Tick, Tick, Tick, " ", "p">> }

\* The block texts: a fence that was opened is closed, and only then.
BlockParts ==
    { parts \in [lead : Leads, json : JsonTexts, trail : Trails] :
        StartsWith(Fence, parts.lead) <=> Contains(Fence, parts.trail) }

VARIABLES
    block,      \* the parts of the block text handed to clean_json_text
    cleaned     \* what it returned, or None before the call

varsClean == <<block, cleaned>>

block_text == block.lead \o block.json \o block.trail

\* cleaned = clean_json_text(block_text), line 176
CleanBlock ==
    /\ ~cleaned.some
    /\ cleaned' = Some(clean_json_text(block_text))
    /\ UNCHANGED block

InitClean ==
    /\ block \in BlockParts
    /\ cleaned = None

\* No block is being cleaned.
QuietClean ==
    /\ block = [lead |-> <<>>, json |-> <<"{", "}">>, trail |-> <<>>]
    /\ cleaned = None

NextClean == CleanBlock

(***************************************************************************)
(* Part VI.  The rule scans of src/invoice_classifier_app.py:              *)
(* classify_invoice and determine_submission_action, called on the form's  *)
(* data and one sheet of rules.                                            *)
(***************************************************************************)
\* Bound: the rows of a rule sheet.
MaxSheetRows == 3

\* Python values of the form's data and of a condition's result.
PyValue(t, b, n, s) == [t |-> t, b |-> b, n |-> n, s |-> s]

\* bool(value), as the if statement takes it.
PyBool(value) ==
    CASE value.t = "bool" -> value.b
      [] value.t = "num" -> value.n # 0
      [] value.t = "str" -> value.s # ""
      [] OTHER -> FALSE

\* The data dict of lines 57-69, for the names the conditions below use:
\* buyer_TIN is None when the field was left blank (line 58).
InvoiceData ==
    [buyer_TIN : {PyValue("none", FALSE, 0, ""), PyValue("str", FALSE, 0, "C1")},
     seller_registered : {PyValue("bool", FALSE, 0, ""), PyValue("bool", TRUE, 0, "")},
     buyer_country : {PyValue("str", FALSE, 0, ""), PyValue("str", FALSE, 0, "MY")},
     amount : {PyValue("num", FALSE, 0, ""), PyValue("num", FALSE, 100, "")}]

\* A cell of the Condition column as pandas reads it: text, a blank cell
\* (float nan) or a boolean cell.
Cell(t, text) == [t |-> t, text |-> text]

\* eval(condition, {}, data): what the call returns, or that it raised an
\* Exception.  A cell that is not a string raises TypeError, an unknown name
\* NameError, an unfinished expression SyntaxError, len(None) TypeError.
eval(condition, data) ==
    LET returns(value) == [raised |-> FALSE, value |-> value]
        raises == [raised |-> TRUE, value |-> PyValue("none", FALSE, 0, "")]
    IN  IF condition.t # "str" THEN raises
        ELSE CASE condition.text = "seller_registered" ->
                    returns(data.seller_registered)
               [] condition.text = "buyer_country" ->
                    returns(data.buyer_country)
               [] condition.text = "amount > 50" ->
                    returns(PyValue("bool", data.amount.n > 50, 0, ""))
               [] condition.text = "len(buyer_TIN) > 0" ->
                    IF data.buyer_TIN.t = "str"
                    THEN returns(PyValue("bool", data.buyer_TIN.s # "", 0, ""))
                    ELSE raises
               [] condition.text = "buyer_country == 'MY'" ->
                    returns(PyValue("bool", data.buyer_country.s = "MY", 0, ""))
               [] OTHER -> raises

\* The rows a sheet is made of: Condition and Action.
SheetRows ==
    { [Condition |-> Cell("str", "seller_registered"), Action |-> "Registered"],
      [Condition |-> Cell("str", "buyer_country"), Action |-> "HasCountry"],
      [Condition |-> Cell("str", "amount > 50"), Action |-> "Large"],
      [Condition |-> Cell("str", "amount > 50"), Action |-> "Review"],
      [Condition |-> Cell("str", "len(buyer_TIN) > 0"), Action |-> "B2B"],
      [Condition |-> Cell("str", "buyer_country == 'MY'"), Action |-> "Domestic"],
      [Condition |-> Cell("str", "tax_code == 1"), Action |-> "Taxed"],
      [Condition |-> Cell("str", "amount >"), Action |-> "Broken"],
      [Condition |-> Cell("nan", ""), Action |-> "Blank"],
      [Condition |-> Cell("bool", "True"), Action |-> "Always"] }

\* The sheets: every sequence of at most MaxSheetRows rows.
RuleSheets == UNION { [1..n -> SheetRows] : n \in 0..MaxSheetRows }

\* The scan with a raising condition ending it (the try around the loop).
classify_invoice_try_outside(data, rules_df) ==
    LET found == {i \in 1..Len(rules_df) :
                     \/ eval(rules_df[i].Condition, data).raised
                     \/ PyBool(eval(rules_df[i].Condition, data).value)}
        first == CHOOSE i \in found : \A j \in found : i <= j
    IN  IF found = {} \/ eval(rules_df[first].Condition, data).raised
        THEN <<"Unclassified", Cell("str", "No matching condition")>>
        ELSE <<rules_df[first].Action, rules_df[first].Condition>>

RECURSIVE classify_invoice(_, _)
classify_invoice(data, rules_df) ==
    IF rules_df = <<>>
    THEN <<"Unclassified", Cell("str", "No matching condition")>>
    ELSE LET row == Head(rules_df)
             result == eval(row.Condition, data)
         IN  IF result.raised
             THEN classify_invoice(data, Tail(rules_df))
             ELSE IF PyBool(result.value)
                  THEN <<row.Action, row.Condition>>
                  ELSE classify_invoice(data, Tail(rules_df))

RECURSIVE determine_submission_action(_, _)
determine_submission_action(data, submission_df) ==
    IF submission_df = <<>>
    THEN <<"Unknown", Cell("str", "No matching condition")>>
    ELSE LET row == Head(submission_df)
             result == eval(row.Condition, data)
         IN  IF result.raised
             THEN determine_submission_action(data, Tail(submission_df))
             ELSE IF PyBool(result.value)
                  THEN <<row.Action, row.Condition>>
                  ELSE determine_submission_action(data, Tail(submission_df))

\* No call has returned.
NoResult == [fn |-> "none", value |-> <<"", Cell("str", "")>>]

VARIABLES
    invoice,     \* the data dict of the call
    rules_sheet, \* the DataFrame of the call
    result       \* the function called and the tuple it returned

varsClassifier == <<invoice, rules_sheet, result>>

\* classify_invoice(data, classification_df), line 77.
ClassifyInvoice ==
    /\ result = NoResult
    /\ result' = [fn |-> "classify_invoice",
                  value |-> classify_invoice(invoice, rules_sheet)]
    /\ UNCHANGED <<invoice, rules_sheet>>

\* determine_submission_action(data, submission_df), line 79.
DetermineSubmissionAction ==
    /\ result = NoResult
    /\ result' = [fn |-> "determine_submission_action",
                  value |-> determine_submission_action(invoice, rules_sheet)]
    /\ UNCHANGED <<invoice, rules_sheet>>

InitClassifier ==
    /\ invoice \in InvoiceData
    /\ rules_sheet \in RuleSheets
    /\ result = NoResult

\* The form has not been submitted.
QuietClassifier ==
    /\ invoice = CHOOSE d \in InvoiceData : TRUE
    /\ rules_sheet = <<>>
    /\ result = NoResult

NextClassifier ==
    \/ ClassifyInvoice
    \/ DetermineSubmissionAction

(***************************************************************************)
(* Specifications.                                                         *)
(***************************************************************************)
vars ==
    <<varsRules, varsClaude, varsTracker, varsPair, varsDesktop, varsClean,
      varsClassifier>>

\* The rule-driven extractor before its first call.
QuietRules ==
    /\ excel_file = [readable |-> FALSE, rows |-> <<>>]
    /\ pc = "start"
    /\ loader = NoLoader
    /\ parser = NoParser
    /\ ret = NoRet
    /\ exc = "none"

\* The programs other than the rule-driven extractor and the two pure
\* functions, before anything has run.
QuietApps == InitClaude /\ InitTracker /\ InitPair /\ InitDesktop

\* The rule-driven extractor; the other programs are not running.
Init == InitRules /\ QuietApps /\ QuietClean /\ QuietClassifier

Next ==
    NextRules /\ UNCHANGED <<varsClaude, varsTracker, varsPair, varsDesktop,
                             varsClean, varsClassifier>>

Spec == Init /\ [][Next]_vars

\* The Claude receipt parser; the other programs are not running.
InitParserApp == QuietRules /\ QuietApps /\ QuietClean /\ QuietClassifier

NextParserApp ==
    NextClaude /\ UNCHANGED <<varsRules, varsTracker, varsPair, varsDesktop,
                              varsClean, varsClassifier>>

SpecParserApp == InitParserApp /\ [][NextParserApp]_vars

\* The insurance tracker; the other programs are not running.
InitInsuranceTracker == QuietRules /\ QuietApps /\ QuietClean /\ QuietClassifier

NextInsuranceTracker ==
    NextTracker /\ UNCHANGED <<varsRules, varsClaude, varsPair, varsDesktop,
                               varsClean, varsClassifier>>

SpecInsuranceTracker == InitInsuranceTracker /\ [][NextInsuranceTracker]_vars

\* The receipt pair uploader; the other programs are not running.
InitPairUploader == QuietRules /\ QuietApps /\ QuietClean /\ QuietClassifier

NextPairUploader ==
    NextPair /\ UNCHANGED <<varsRules, varsClaude, varsTracker, varsDesktop,
                            varsClean, varsClassifier>>

SpecPairUploader == InitPairUploader /\ [][NextPairUploader]_vars

\* The grouped uploader; the other programs are not running.
InitGroupedUploader == QuietRules /\ QuietApps /\ QuietClean /\ QuietClassifier

NextGroupedUploader ==
    NextDesktop /\ UNCHANGED <<varsRules, varsClaude, varsTracker, varsPair,
                               varsClean, varsClassifier>>

SpecGroupedUploader == InitGroupedUploader /\ [][NextGroupedUploader]_vars

\* clean_json_text on one block; the other programs are not running.
InitCleanJson == QuietRules /\ QuietApps /\ InitClean /\ QuietClassifier

NextCleanJson ==
    NextClean /\ UNCHANGED <<varsRules, varsClaude, varsTracker, varsPair,
                             varsDesktop, varsClassifier>>

SpecCleanJson == InitCleanJson /\ [][NextCleanJson]_vars

\* The rule scans on one data dict and one sheet; the other programs are not
\* running.
InitInvoiceClassifier == QuietRules /\ QuietApps /\ QuietClean /\ InitClassifier

NextInvoiceClassifier ==
    NextClassifier /\ UNCHANGED <<varsRules, varsClaude, varsTracker, varsPair,
                                  varsDesktop, varsClean>>

SpecInvoiceClassifier == InitInvoiceClassifier /\ [][NextInvoiceClassifier]_vars

(***************************************************************************)
(* Properties of Part I.                                                   *)
(***************************************************************************)
Min(S) == CHOOSE x \in S : \A y \in S : x <= y

\* The indices of the lines that contain the anchor, letter case ignored.
AnchorLines(lines, anchor) ==
    {i \in 1..Len(lines) : Contains(Lower(anchor), Lower(lines[i]))}

\* The state right after a direct call extract_from_lines(anchor, pattern).
CalledExtract == ret.op = "extract_from_lines"

CallAnchor == ret.args[1]

CallPattern == ret.args[2]

\* For the field f of a result mapping: the rule that wrote the entry, which
\* is the last rule for f in rule order.
LastRuleFor(rules, f) ==
    rules[CHOOSE i \in 1..Len(rules) :
            /\ rules[i].Field = f
            /\ \A j \in (i + 1)..Len(rules) : rules[j].Field # f]

\* The state right after extract_fields returned a mapping of fields.
ReturnedFields ==
    /\ ret.op = "extract_fields"
    /\ exc = "none"
    /\ Truthy(parser.rules)

\* C1: when the rule table holds no row for the insurer (letter case
\* ignored), so that get_rules_for_insurer gave None, extract_fields returns
\* a mapping whose only key is "error" and raises nothing.
C1_ZeroRulesGiveErrorObject ==
    ( /\ ret.op = "extract_fields"
      /\ \A i \in 1..Len(loader.df) :
            Lower(loader.df[i].Insurer) # Lower(parser.insurer) )
    => /\ exc = "none"
       /\ pc = "done"
       /\ DOMAIN ret.value = {"error"}

C1_Witness ==
    /\ ret.op = "extract_fields"
    /\ parser.rules = None
    /\ loader.df # <<>>
    /\ parser.lines # <<>>
    /\ DOMAIN ret.value = {"error"}

\* C2: when the regex matches the first line that contains the anchor, the
\* value is the text of that match (a slice of the line), not the line; the
\* same holds of the entry of every field in the mapping of extract_fields.
C2_RegexMatchIsReturned ==
    /\ CalledExtract =>
          LET at == AnchorLines(parser.lines, CallAnchor)
          IN  at # {} =>
                LET line == parser.lines[Min(at)]
                    m == re_search(CallPattern, line)
                IN  m.found =>
                       /\ ret.value = Some(m.text)
                       /\ Contains(ret.value.val, line)
                       /\ (m.text # line => ret.value # Some(line))
    /\ ReturnedFields =>
          \A f \in DOMAIN ret.value :
             LET rule == LastRuleFor(parser.rules.val, f)
                 at == AnchorLines(parser.lines, rule.Anchor_Phrase)
             IN  at # {} =>
                   LET m == re_search(rule.Regex_Pattern, parser.lines[Min(at)])
                   IN  m.found => ret.value[f].value = Some(m.text)

C2_Witness ==
    /\ CalledExtract
    /\ AnchorLines(parser.lines, CallAnchor) # {}
    /\ LET line == parser.lines[Min(AnchorLines(parser.lines, CallAnchor))]
           m == re_search(CallPattern, line)
       IN  /\ m.found
           /\ m.text # line
           /\ m.text # <<>>
           /\ ret.value = Some(m.text)

\* C3: when a line contains the anchor and the regex does not match the
\* first such line, the value is that whole trimmed line.
C3_NoMatchFallsBackToLine ==
    /\ CalledExtract =>
          LET at == AnchorLines(parser.lines, CallAnchor)
          IN  at # {} =>
                LET line == parser.lines[Min(at)]
                IN  ~re_search(CallPattern, line).found =>
                       /\ ret.value = Some(line)
                       /\ Strip(ret.value.val) = ret.value.val
    /\ ReturnedFields =>
          \A f \in DOMAIN ret.value :
             LET rule == LastRuleFor(parser.rules.val, f)
                 at == AnchorLines(parser.lines, rule.Anchor_Phrase)
             IN  at # {} =>
                   LET line == parser.lines[Min(at)]
                   IN  ~re_search(rule.Regex_Pattern, line).found =>
                          ret.value[f].value = Some(line)

C3_Witness ==
    /\ CalledExtract
    /\ AnchorLines(parser.lines, CallAnchor) # {}
    /\ LET line == parser.lines[Min(AnchorLines(parser.lines, CallAnchor))]
       IN  /\ ~re_search(CallPattern, line).found
           /\ Len(line) > 1
           /\ ret.value = Some(line)

\* C4: the value is None exactly when no line contains the anchor.
C4_NoneIffNoAnchorLine ==
    /\ CalledExtract =>
          (ret.value = None <=> AnchorLines(parser.lines, CallAnchor) = {})
    /\ ReturnedFields =>
          \A f \in DOMAIN ret.value :
             LET rule == LastRuleFor(parser.rules.val, f)
             IN  ret.value[f].value = None
                    <=> AnchorLines(parser.lines, rule.Anchor_Phrase) = {}

C4_Witness ==
    /\ CalledExtract
    /\ parser.lines # <<>>
    /\ AnchorLines(parser.lines, CallAnchor) = {}
    /\ ret.value = None

\* The letter-case variants of a string that the properties compare.
CaseVariants(s) == {s, Lower(s), Upper(s)}

C6_OnlyFirstAnchorLineIsUsed ==
    CalledExtract =>
       LET at == AnchorLines(parser.lines, CallAnchor)
       IN  at # {} =>
             LET first == parser.lines[Min(at)]
                 m == re_search(CallPattern, first)
             IN  /\ ret.value = extract_from_lines(<<first>>, CallAnchor, CallPattern)
                 /\ ret.value = IF m.found THEN Some(m.text) ELSE Some(first)
                 /\ Contains(ret.value.val, first)

\* Two lines contain the anchor, the regex fails on the first and matches
\* the second, and the first line is the value.
C6_Witness ==
    /\ CalledExtract
    /\ LET at == AnchorLines(parser.lines, CallAnchor)
       IN  /\ Cardinality(at) >= 2
           /\ ~re_search(CallPattern, parser.lines[Min(at)]).found
           /\ \E j \in at : re_search(CallPattern, parser.lines[j]).found
           /\ ret.value = Some(parser.lines[Min(at)])

\* The pieces joined with "\n" between them.
RECURSIVE JoinNewline(_)
JoinNewline(pieces) ==
    IF Len(pieces) = 1 THEN pieces[1]
    ELSE pieces[1] \o <<"\n">> \o JoinNewline(Tail(pieces))

NonBlank(p) == \E k \in 1..Len(p) : p[k] \notin Whitespace

\* The k-th smallest element of a set of numbers.
KthSmallest(S, k) == CHOOSE x \in S : Cardinality({y \in S : y <= x}) = k

\* A piece from its first to its last character that is not whitespace.
Trimmed(p) ==
    LET solid == {k \in 1..Len(p) : p[k] \notin Whitespace}
    IN  SubSeq(p, Min(solid), CHOOSE x \in solid : \A y \in solid : y <= x)

\* C7: the line list of the parser is the newline-separated pieces of the
\* OCR text, trimmed, without the pieces that are blank, in text order; no
\* line is empty or starts or ends with whitespace.
C7_LinesAreTrimmedNonBlankPieces ==
    ret.op = "GuidedParser" =>
       LET text == ret.args[1]
           pieces == Split(text)
           kept == {i \in 1..Len(pieces) : NonBlank(pieces[i])}
           lines == parser.lines
       IN  /\ JoinNewline(pieces) = text
           /\ \A i \in 1..Len(pieces) : \A k \in 1..Len(pieces[i]) : pieces[i][k] # "\n"
           /\ Len(lines) = Cardinality(kept)
           /\ \A k \in 1..Len(lines) :
                 /\ lines[k] = Trimmed(pieces[KthSmallest(kept, k)])
                 /\ lines[k] # <<>>
                 /\ lines[k][1] \notin Whitespace
                 /\ lines[k][Len(lines[k])] \notin Whitespace

\* A text with a blank piece that is dropped and a piece that is trimmed.
C7_Witness ==
    /\ ret.op = "GuidedParser"
    /\ LET pieces == Split(ret.args[1])
       IN  /\ Len(parser.lines) >= 1
           /\ Len(pieces) > Len(parser.lines)
           /\ \E i \in 1..Len(pieces) :
                 /\ NonBlank(pieces[i])
                 /\ pieces[i] # Trimmed(pieces[i])
                 /\ \E k \in 1..Len(parser.lines) : parser.lines[k] = Trimmed(pieces[i])

\* C8: when the spreadsheet cannot be read the constructor ends in
\* ValueError, no loader object exists, and so no query is answered and no
\* parser is built from it.
C8_FailedLoadGivesNoLoader ==
    ~excel_file.readable =>
       /\ loader = NoLoader
       /\ parser = NoParser
       /\ ret = NoRet
       /\ \/ pc = "start" /\ exc = "none"
          \/ pc = "raised" /\ exc = "ValueError"

C8_Witness ==
    /\ ~excel_file.readable
    /\ pc = "raised"
    /\ exc = "ValueError"
    /\ loader = NoLoader

\* Two strings that are equal when letter case is ignored.
SameIgnoringCase(a, b) ==
    /\ Len(a) = Len(b)
    /\ \A k \in 1..Len(a) : UpperChar(a[k]) = UpperChar(b[k])

\* The table rows of an insurer name, letter case ignored: their indices.
RowsOfInsurer(df, name) ==
    {i \in 1..Len(df) : SameIgnoringCase(df[i].Insurer, name)}

\* C24: validate_insurer(name) is true exactly when the table has a row whose
\* Insurer equals the name ignoring case, which is exactly when
\* get_rules_for_insurer(name) gives a non-empty list; that list holds all
\* and only those rows, in table order (None when there is none); and both
\* answers are the same for the name in another letter case.
C24_QueriesAgreeIgnoringCase ==
    /\ ret.op = "validate_insurer" =>
         /\ ret.value <=> RowsOfInsurer(loader.df, ret.args[1]) # {}
         /\ ret.value <=> Truthy(get_rules_for_insurer(loader.df, ret.args[1]))
         /\ \A v \in CaseVariants(ret.args[1]) :
               validate_insurer(loader.df, v) = ret.value
    /\ ret.op = "get_rules_for_insurer" =>
         LET rows == RowsOfInsurer(loader.df, ret.args[1])
         IN  /\ rows = {} => ret.value = None
             /\ rows # {} =>
                  /\ ret.value.some
                  /\ Len(ret.value.val) = Cardinality(rows)
                  /\ \A k \in 1..Cardinality(rows) :
                        ret.value.val[k] = loader.df[KthSmallest(rows, k)]
             /\ Truthy(ret.value) <=> validate_insurer(loader.df, ret.args[1])
             /\ \A v \in CaseVariants(ret.args[1]) :
                   get_rules_for_insurer(loader.df, v) = ret.value

\* C24 witness: a name typed in another letter case than the table's, in a
\* table that has a row of that insurer after a row of another one; the
\* query gave that row alone.
C24_Witness ==
    /\ ret.op = "get_rules_for_insurer"
    /\ Len(loader.df) = 2
    /\ ret.args[1] # loader.df[2].Insurer
    /\ RowsOfInsurer(loader.df, ret.args[1]) = {2}
    /\ ret.value = Some(<<loader.df[2]>>)
    /\ validate_insurer(loader.df, ret.args[1])

(***************************************************************************)
(* Properties of Part II.                                                  *)
(***************************************************************************)
\* The run of session s parsed Claude's answer into JSON and was started by
\* a click on the confirm button.
Confirmed(s) ==
    /\ sess[s].claude = "parsed"
    /\ sess[s].button_shown
    /\ sess[s].clicked

\* C9: a run is at one of its storage steps, or has written something, only
\* when it parsed the answer and was started by the confirm click; a run in
\* which Claude's call or the parse failed has written nothing; and every
\* step that changes the bucket is a write of such a confirmed run.
C9_WritesOnlyAfterParseAndConfirm ==
    /\ [](\A s \in Sessions :
             /\ (sess[s].pc # "idle" \/ sess[s].writes # {}) => Confirmed(s)
             /\ sess[s].claude = "failed" =>
                   sess[s].pc = "idle" /\ sess[s].writes = {})
    /\ [][ /\ (blobs' # blobs \/ inventory' # inventory) =>
                \E s \in Sessions :
                   /\ Confirmed(s)
                   /\ sess[s].pc \in {"upload_image", "save_list", "save_inventory"}
                   /\ sess'[s].writes # sess[s].writes
           /\ \A s \in Sessions :
                 (sess'[s] # sess[s] /\ sess'[s].claude = "failed") =>
                    blobs' = blobs /\ inventory' = inventory ]_vars

\* One session has written the image, the .list file and the inventory in
\* a confirmed run while the other session's run failed to parse.
C9_Witness ==
    \E s, t \in Sessions :
       /\ s # t
       /\ Confirmed(s)
       /\ sess[s].writes = {"image", "list", "inventory"}
       /\ inventory.exists
       /\ sess[t].claude = "failed"
       /\ sess[t].uploaded \in Files
       /\ sess[t].uploaded.size <= MAX_UPLOAD_MB * 1024 * 1024

\* C10: the inventory is append-only: no step removes or changes a stored
\* row (every stored row was saved by a call that returned added = True)
\* and the stored row count never decreases.
C10_InventoryIsAppendOnly ==
    [][ inventory.exists =>
          /\ inventory'.exists
          /\ Len(inventory'.rows) >= Len(inventory.rows)
          /\ \A i \in 1..Len(inventory.rows) :
                \E j \in 1..Len(inventory'.rows) :
                   inventory'.rows[j] = inventory.rows[i] ]_vars

\* The step of session s from pc value a to pc value b.
Moves(s, a, b) == sess[s].pc = a /\ sess'[s].pc = b

\* C11: last writer wins.  A run that appends holds the snapshot it loaded
\* plus its own row; its save stores exactly that frame, whatever another
\* session stored since the load; and the stored inventory changes in no
\* other step, so that it always is the table of the session that saved
\* last.
C11_LastWriterWins ==
    [][ /\ \A s \in Sessions :
             /\ Moves(s, "append", "save_inventory") =>
                   sess'[s].df = Append(load_master_inventory(inventory), sess[s].row)
             /\ Moves(s, "save_inventory", "show_inventory") =>
                   /\ inventory'.exists
                   /\ inventory'.rows = to_csv(sess[s].df)
        /\ inventory' # inventory =>
              \E s \in Sessions : Moves(s, "save_inventory", "show_inventory") ]_vars

\* Both sessions have saved a row in runs that overlapped: each loaded the
\* inventory before the other saved, and the stored table is the one-row
\* table of the session that saved last.
C11_Witness ==
    \E s, t \in Sessions :
       /\ s # t
       /\ sess[s].pc = "show_inventory" /\ sess[s].added
       /\ sess[t].pc = "show_inventory" /\ sess[t].added
       /\ Len(sess[s].df) = 1 /\ Len(sess[t].df) = 1
       /\ sess[s].df # sess[t].df
       /\ inventory.rows \in {to_csv(sess[s].df), to_csv(sess[t].df)}

\* The inventory holds a row of the same file uploaded on the same day.
SameFileSameDay(df, row) ==
    \E i \in 1..Len(df) :
       /\ df[i]["filename"] = row["filename"]
       /\ df[i]["system_date"] = row["system_date"]

\* C12: append_to_inventory refuses a row (added = False, nothing saved)
\* exactly when the inventory holds a row with the same filename and the
\* same system_date; in every other case it goes on to append and save.
C12_DuplicateIffSameFileSameDay ==
    [][ \A s \in Sessions :
           (sess[s].pc = "append" /\
            sess'[s].pc \in {"show_inventory", "save_inventory"}) =>
              (sess'[s].pc = "show_inventory" <=>
                  SameFileSameDay(load_master_inventory(inventory), sess[s].row)) ]_vars

\* C13: no failure of an external call ends a script run with an exception
\* that nothing caught.
C13_NoUncaughtExternalFailure ==
    \A s \in Sessions : sess[s].outcome # "StorageError"

\* C14: no rollback.  A run whose append added no row is at the display of
\* the master inventory with the image and the .list blob it wrote still in
\* storage; the refusal moves the run on to that display and touches no
\* blob; and no step ever removes a blob.
C14_NoRollback ==
    /\ [](\A s \in Sessions :
             (sess[s].pc = "show_inventory" /\ ~sess[s].added) =>
                /\ sess[s].writes = {"image", "list"}
                /\ ImageBlob(sess[s].uploaded.name) \in blobs
                /\ ListBlob(sess[s].uploaded.name) \in blobs)
    /\ [][ /\ blobs \subseteq blobs'
           /\ \A s \in Sessions :
                 (/\ sess[s].pc = "append"
                  /\ sess'[s] # sess[s]
                  /\ sess'[s].outcome # "StorageError"
                  /\ IsDuplicate(load_master_inventory(inventory), sess[s].row)) =>
                    /\ sess'[s].pc = "show_inventory"
                    /\ ~sess'[s].added
                    /\ blobs' = blobs /\ inventory' = inventory ]_vars

\* A confirmed run uploaded the image and the .list file, the append then
\* refused its row, and the run is at the display with both blobs stored.
C14_Witness ==
    \E s \in Sessions :
       /\ sess[s].pc = "show_inventory"
       /\ ~sess[s].added
       /\ sess[s].writes = {"image", "list"}
       /\ {ImageBlob(sess[s].uploaded.name), ListBlob(sess[s].uploaded.name)} \subseteq blobs
       /\ inventory.exists

\* The steps at which a run issues a storage request.
StoragePcs ==
    {"upload_image", "save_list", "append", "save_inventory", "show_inventory"}

LimitBytes == MAX_UPLOAD_MB * 1024 * 1024

\* C18: the size guard.  With a file over the limit in the uploader the run
\* has written no temporary file, has not called Claude, offers no confirm
\* button and has written nothing; with a file of at most the limit, the
\* limit itself included, the run saved the temporary file and called
\* Claude; and the run that rejects a file leaves the bucket as it was.
C18_SizeGuard ==
    /\ [](\A s \in Sessions :
             sess[s].uploaded # NoFile =>
                IF sess[s].uploaded.size > LimitBytes
                THEN /\ ~sess[s].temp
                     /\ sess[s].claude = "none"
                     /\ ~sess[s].button_shown
                     /\ sess[s].pc = "idle"
                     /\ sess[s].issued = {} /\ sess[s].writes = {}
                ELSE /\ sess[s].temp
                     /\ sess[s].claude \in {"failed", "parsed"})
    /\ [][ \A s \in Sessions :
             (sess'[s] # sess[s] /\ sess'[s].uploaded.size > LimitBytes) =>
                blobs' = blobs /\ inventory' = inventory ]_vars

\* One session's file of one byte over the limit was rejected; the other
\* session's file of exactly the limit was saved and parsed by Claude.
C18_Witness ==
    \E s, t \in Sessions :
       /\ sess[s].uploaded.size = LimitBytes + 1
       /\ ~sess[s].temp /\ sess[s].claude = "none"
       /\ sess[t].uploaded.size = LimitBytes
       /\ sess[t].temp /\ sess[t].claude = "parsed" /\ sess[t].button_shown

(***************************************************************************)
(* Properties of Part III.                                                 *)
(***************************************************************************)
\* The two-digit strings "01" to "99".
TwoDigitTokens ==
    {a \o b : a \in {DigitText[k] : k \in 1..10},
              b \in {DigitText[k] : k \in 1..10}} \ {"00"}

IsPrefix(p, q) == Len(p) <= Len(q) /\ SubSeq(q, 1, Len(p)) = p

\* The folder data/<tag> of a tag, as a place in the file system.
TagFolder(tag) == Location(Rel(<<"data", tag>>))

\* C16 (insurance tracker): a run whose token is missing or is not one of
\* "01" to "99" stops at the token check and creates no file or folder;
\* a run with a valid token has that token as its tag and creates files and
\* folders only in and under data/<tag>.
C16_TokenGatesEveryWrite ==
    /\ [](IF tracker.token \in TwoDigitTokens
           THEN /\ tracker.tag_id = tracker.token
                /\ ~tracker.stopped
                /\ \A place \in tracker.written :
                      \/ IsPrefix(TagFolder(tracker.tag_id), place)
                      \/ IsPrefix(place, TagFolder(tracker.tag_id))
           ELSE /\ tracker.pc = "idle"
                /\ tracker.written = {}
                /\ (tracker # IdleTracker => tracker.stopped))
    /\ [][ tracker'.token \notin TwoDigitTokens => disk' = disk ]_vars

\* The kinds under which the run stored a payment proof.
PaymentKinds == {"payment", "payment_unparsed"}

\* C17: upload is gated on the receipt having parsed.  The run goes to the
\* receipt upload exactly when Document AI returned a receipt document with
\* an entity, and a receipt is stored only then; a payment proof is stored
\* only after the receipt of the same run, only when one was picked, and
\* under "payment" when its document has entities, "payment_unparsed"
\* otherwise; a run whose receipt did not parse uploads nothing; and every
\* blob that appears is the one such upload of the run's tag.
C17_UploadGatedOnReceipt ==
    /\ [](/\ pair.attempted # {} => "receipt" \in pair.attempted
          /\ (pair.pc # "idle" \/ pair.attempted # {}) =>
                /\ pair.receipt_doc = "entities"
                /\ pair.tag_id \in TwoDigitTokens
          /\ pair.receipt_doc = "entities" =>
                (pair.pc = "upload_receipt" \/ "receipt" \in pair.attempted)
          /\ (pair.receipt_doc = "entities" /\ pair.outcome = "done") =>
                "receipt" \in pair.uploaded
          /\ pair.uploaded \subseteq pair.attempted
          /\ \A kind \in pair.attempted \cap PaymentKinds :
                /\ "receipt" \in pair.uploaded
                /\ pair.payment_file = "image"
                /\ kind = "payment" <=> pair.payment_doc = "entities"
          /\ (pair.outcome = "done" /\ "receipt" \in pair.uploaded
                 /\ pair.payment_file = "image") =>
                pair.uploaded \cap PaymentKinds # {}
          /\ pair.receipt_doc # "entities" =>
                pair.pc = "idle" /\ pair.attempted = {})
    /\ [][ bucket' # bucket =>
             \E kind \in pair'.uploaded \ pair.uploaded :
                /\ pair.receipt_doc = "entities"
                /\ bucket' = bucket \cup {BlobPath(pair.tag_id, kind)} ]_vars

\* The receipt parsed and the payment proof did not: both were uploaded,
\* the payment proof with the unparsed marker.
C17_Witness ==
    /\ pair.outcome = "done"
    /\ pair.receipt_doc = "entities"
    /\ pair.payment_doc \in {"none", "no_entities"}
    /\ pair.uploaded = {"receipt", "payment_unparsed"}
    /\ {BlobPath(pair.tag_id, "receipt"),
        BlobPath(pair.tag_id, "payment_unparsed")} \subseteq bucket

(***************************************************************************)
(* Properties of Part IV.                                                  *)
(***************************************************************************)
\* C20: the group workflow is ordered.  upload_triggered implies
\* confirm_triggered; the Final Confirmation button is offered only while
\* upload_triggered is true; outside the one hydration from a progress
\* file, submitted_groups changes only when final_confirm appends the
\* current group to it; and the group that final_confirm moves had Confirm
\* and Upload to AI triggered while it was the current group.
C20_WorkflowIsOrdered ==
    /\ [](/\ session_state.upload_triggered => session_state.confirm_triggered
          /\ "final" \in offered => session_state.upload_triggered)
    /\ [][ (/\ session_state'.submitted_groups # session_state.submitted_groups
            /\ session_state'.loaded_from_file = session_state.loaded_from_file) =>
              /\ "final" \in offered
              /\ session_state.groups # <<>>
              /\ session_state'.submitted_groups =
                    Append(session_state.submitted_groups, session_state.groups[1])
              /\ <<"confirm", GroupId(session_state.groups[1])>> \in triggered
              /\ <<"upload", GroupId(session_state.groups[1])>> \in triggered ]_vars

\* C21: a step in which final_confirm ran through (the groups list was not
\* empty at the click) ends, after the script run that follows it, with
\* exactly one current group, newly created by the app with the default
\* claimant and four empty image slots, also after the form has been drawn
\* (the run reaches the sidebar and the form: no exception before section 10);
\* with confirm_triggered, upload_triggered, final_confirm_triggered and
\* init_next_group all false and only the Confirm button in the sidebar; and
\* with submitted_groups equal to its old value plus the group that was
\* current.
C21_FinalConfirmStartsFreshGroup ==
    [][ (ClickFinalConfirm /\ session_state.groups # <<>>) =>
          /\ error' \notin {"IndexError", "JSONDecodeError", "NameError"}
          /\ created' = created + 1
          /\ session_state'.groups = <<NewGroup(created')>>
          /\ widgets' = [group_idx |-> Len(session_state'.submitted_groups) + 1,
                         claimant_id |-> "Donald Trump",
                         images |-> NoImages]
          /\ ~session_state'.confirm_triggered
          /\ ~session_state'.upload_triggered
          /\ ~session_state'.final_confirm_triggered
          /\ ~session_state'.init_next_group
          /\ offered' = {"confirm"}
          /\ session_state'.submitted_groups =
                Append(session_state.submitted_groups, session_state.groups[1]) ]_vars

\* C21 witness: the run after final_confirm has been made; the group that was
\* moved carries what the user put into the form, the current one is new.
C21_Witness ==
    /\ created = 2
    /\ session_state.groups = <<NewGroup(2)>>
    /\ session_state.submitted_groups # <<>>
    /\ LET moved == session_state.submitted_groups[Len(session_state.submitted_groups)]
       IN  /\ moved.origin = "app"
           /\ moved.claimant_id = "Joe Biden"
           /\ moved.images[1] = "file"
    /\ widgets.group_idx = Len(session_state.submitted_groups) + 1
    /\ offered = {"confirm"}

\* C22: in every reachable state, upload_triggered implies that the groups
\* list is not empty, and so neither final_confirm's groups.pop(0)
\* (IndexError) nor the entity-table section's use of the current group
\* (NameError) fails.
C22_UploadTriggeredHasGroup ==
    /\ session_state.upload_triggered => session_state.groups # <<>>
    /\ error \notin {"IndexError", "NameError"}

(***************************************************************************)
(* Properties of Part V.                                                   *)
(***************************************************************************)
\* C19: for a block text made of an optional lead (prose, or a fence with
\* an optional json label), one valid JSON object or array, and an optional
\* trail, clean_json_text returns exactly the text of the object or array.
C19_CleanKeepsTheJson ==
    cleaned.some => cleaned.val = block.json

(***************************************************************************)
(* Properties of Part VI.                                                  *)
(***************************************************************************)
\* The rows of the sheet whose condition evaluates, without raising, to a
\* true value on the data.
MatchingRows ==
    {i \in 1..Len(rules_sheet) :
        LET r == eval(rules_sheet[i].Condition, invoice)
        IN  ~r.raised /\ PyBool(r.value)}

\* C23: classify_invoice and determine_submission_action return the Action
\* and the Condition of the first row, in sheet order, whose condition
\* evaluates to a true value on the data; rows whose condition raises or is
\* false are passed over, wherever they stand; with no such row the result is
\* ("Unclassified", "No matching condition") or ("Unknown", "No matching
\* condition").
C23_FirstTrueRuleWins ==
    result.fn # "none" =>
      IF MatchingRows = {}
      THEN result.value =
             <<IF result.fn = "classify_invoice" THEN "Unclassified" ELSE "Unknown",
               Cell("str", "No matching condition")>>
      ELSE result.value = <<rules_sheet[Min(MatchingRows)].Action,
                            rules_sheet[Min(MatchingRows)].Condition>>

\* C23 witness: the first row's condition raised, the second and the third
\* are true with different actions, and the second row's pair was returned.
C23_Witness ==
    /\ result.fn = "classify_invoice"
    /\ Len(rules_sheet) = 3
    /\ eval(rules_sheet[1].Condition, invoice).raised
    /\ MatchingRows = {2, 3}
    /\ rules_sheet[2].Action # rules_sheet[3].Action
    /\ result.value = <<rules_sheet[2].Action, rules_sheet[2].Condition>>

=============================================================================
